---- MODULE Spec2Model ----
(***************************************************************************)
(* A model of combine_feature.py (VariableFeatureCombiner): the per-master *)
(* load, the glyph-class merge, the kern merge with variable value syntax, *)
(* the pass-through of other feature blocks and the assembled output.      *)
(*                                                                         *)
(* Feature text is a sequence of one-character strings.  The regular       *)
(* expressions of the source are modelled by matchers over such sequences, *)
(* str()/int() by conversions between integers and digit sequences, and    *)
(* Python dicts (insertion ordered) by sequences of [k, v] records.        *)
(***************************************************************************)
EXTENDS Integers, Sequences, FiniteSets, TLC

VARIABLES
    sources,           \* designspace.sources, in document order
    given,             \* per source: the statements its feature text was written from
    idx,               \* sources already visited by the loop of load_ufo_features
    pc,                \* position in save_combined_features
    masters_data,      \* self.masters_data
    combined_classes,  \* self.combined_classes
    kern_statements,   \* the list returned by combine_kern_features
    other_emitted,     \* the other-feature blocks, in the order they were appended
    output             \* the text returned by generate_variable_features

vars == <<sources, given, idx, pc, masters_data, combined_classes,
          kern_statements, other_emitted, output>>

(***************************************************************************)
(* Bounds of the checked inputs.                                           *)
(***************************************************************************)
MaxDecls == 3
MaxStmts == 3
MaxBlocks == 3
MaxSources == 3

(***************************************************************************)
(* Characters.                                                             *)
(***************************************************************************)
Digits == {"0", "1", "2", "3", "4", "5", "6", "7", "8", "9"}

Letters ==
    {"a", "b", "c", "d", "e", "f", "g", "h", "i", "j", "k", "l", "m",
     "n", "o", "p", "q", "r", "s", "t", "u", "v", "w", "x", "y", "z",
     "A", "B", "C", "D", "E", "F", "G", "H", "I", "J", "K", "L", "M",
     "N", "O", "P", "Q", "R", "S", "T", "U", "V", "W", "X", "Y", "Z"}

\* \s
Whitespace == {" ", "\n", "\t"}

\* \w
WordChars == Letters \cup Digits \cup {"_"}

\* [a-zA-Z0-9_.]
ClassNameChars == Letters \cup Digits \cup {"_", "."}

\* Printable ASCII characters in code point order (the order of sorted());
\* the quote characters and the backslash are left out.
Ascii ==
    <<" ", "!", "#", "$", "%", "&", "(", ")", "*", "+", ",", "-", ".", "/",
      "0", "1", "2", "3", "4", "5", "6", "7", "8", "9", ":", ";", "<", "=", ">", "?",
      "@", "A", "B", "C", "D", "E", "F", "G", "H", "I", "J", "K", "L", "M", "N", "O",
      "P", "Q", "R", "S", "T", "U", "V", "W", "X", "Y", "Z", "[", "]", "^", "_",
      "a", "b", "c", "d", "e", "f", "g", "h", "i", "j", "k", "l", "m", "n", "o",
      "p", "q", "r", "s", "t", "u", "v", "w", "x", "y", "z", "{", "|", "}", "~">>

Ord(c) == CHOOSE i \in DOMAIN Ascii : Ascii[i] = c

\* s < t for Python strings
RECURSIVE StrLess(_, _)
StrLess(s, t) ==
    IF t = <<>> THEN FALSE
    ELSE IF s = <<>> THEN TRUE
    ELSE IF s[1] = t[1] THEN StrLess(Tail(s), Tail(t))
    ELSE Ord(s[1]) < Ord(t[1])

\* sorted(list(S)) for a set of strings
RECURSIVE sorted(_)
sorted(S) ==
    IF S = {} THEN <<>>
    ELSE LET m == CHOOSE x \in S : \A y \in S \ {x} : StrLess(x, y)
         IN  <<m>> \o sorted(S \ {m})

Range(s) == {s[i] : i \in DOMAIN s}

\* sep.join(parts)
RECURSIVE join(_, _)
join(sep, parts) ==
    IF parts = <<>> THEN <<>>
    ELSE IF Len(parts) = 1 THEN parts[1]
    ELSE parts[1] \o sep \o join(sep, Tail(parts))

\* The least element of a set of indices, 0 if it is empty.
First(I) == IF I = {} THEN 0 ELSE CHOOSE i \in I : \A j \in I : i <= j

\* The end of a greedy run of characters of S from index i of t: the first
\* index >= i whose character is not in S (Len(t) + 1 if there is none).
Span(t, i, S) ==
    IF i > Len(t) THEN i
    ELSE First({j \in i..(Len(t) + 1) : j > Len(t) \/ t[j] \notin S})

\* Whether the literal lit stands at index i of t.
MatchLit(t, i, lit) ==
    /\ i >= 1
    /\ i + Len(lit) - 1 <= Len(t)
    /\ SubSeq(t, i, i + Len(lit) - 1) = lit

\* The first index >= i of t where lit stands, 0 if there is none.
Find(t, i, lit) == First({j \in i..Len(t) : MatchLit(t, j, lit)})

\* s.strip()
strip(s) ==
    LET I == {i \in DOMAIN s : s[i] \notin Whitespace}
    IN  IF I = {} THEN <<>>
        ELSE SubSeq(s, First(I), CHOOSE i \in I : \A j \in I : j <= i)

\* s.split(): the maximal runs of non-whitespace characters, from index i on
RECURSIVE SplitFrom(_, _)
SplitFrom(s, i) ==
    LET b == Span(s, i, Whitespace)
        e == Span(s, b, Range(s) \ Whitespace)
    IN  IF b > Len(s) THEN <<>>
        ELSE <<SubSeq(s, b, e - 1)>> \o SplitFrom(s, e)

split(s) == SplitFrom(s, 1)

\* str(n) for an integer
RECURSIVE DigitsOf(_)
DigitsOf(n) ==
    IF n < 10 THEN <<Ascii[Ord("0") + n]>>
    ELSE DigitsOf(n \div 10) \o <<Ascii[Ord("0") + (n % 10)]>>

str(n) == IF n < 0 THEN <<"-">> \o DigitsOf(0 - n) ELSE DigitsOf(n)

\* int(s) for a match of -?\d+
RECURSIVE NatOf(_)
NatOf(ds) ==
    IF ds = <<>> THEN 0
    ELSE 10 * NatOf(SubSeq(ds, 1, Len(ds) - 1)) + (Ord(ds[Len(ds)]) - Ord("0"))

int(s) == IF s[1] = "-" THEN 0 - NatOf(Tail(s)) ELSE NatOf(s)

(***************************************************************************)
(* Python dicts: insertion ordered, an assignment to a present key keeps   *)
(* the place of the key.                                                   *)
(***************************************************************************)
Keys(d) == {d[i].k : i \in DOMAIN d}

Get(d, key) == d[CHOOSE i \in DOMAIN d : d[i].k = key].v

Put(d, key, val) ==
    IF key \in Keys(d)
    THEN [i \in DOMAIN d |-> IF d[i].k = key THEN [k |-> key, v |-> val] ELSE d[i]]
    ELSE Append(d, [k |-> key, v |-> val])

(***************************************************************************)
(* parse_glyph_classes                                                     *)
(***************************************************************************)
NoMatch == [ok |-> FALSE]

\* class_pattern at index i: @([a-zA-Z0-9_.]+)\s*=\s*\[(.*?)\];
ClassMatchAt(t, i) ==
    IF ~MatchLit(t, i, <<"@">>) THEN NoMatch
    ELSE
    LET n == Span(t, i + 1, ClassNameChars)
        e == Span(t, n, Whitespace)
        b == Span(t, e + 1, Whitespace)
        j == Find(t, b + 1, <<"]", ";">>)
    IN  IF n > i + 1 /\ MatchLit(t, e, <<"=">>) /\ MatchLit(t, b, <<"[">>) /\ j # 0
        THEN [ok |-> TRUE, name |-> SubSeq(t, i + 1, n - 1),
              body |-> SubSeq(t, b + 1, j - 1), end |-> j + 2]
        ELSE NoMatch

\* glyph_list = [g.strip() for g in match.group(2).split() if g.strip()]
GlyphList(body) == split(body)

\* re.finditer(class_pattern, features_text, re.DOTALL), from index i on
RECURSIVE ClassMatches(_, _)
ClassMatches(t, i) ==
    LET at == First({j \in i..Len(t) : ClassMatchAt(t, j).ok})
        m  == ClassMatchAt(t, at)
    IN  IF at = 0 THEN <<>>
        ELSE <<[name |-> m.name, glyphs |-> GlyphList(m.body)]>>
             \o ClassMatches(t, m.end)

\* classes[class_name] = glyph_list
ClassStore(classes, m) == Put(classes, m.name, m.glyphs)

RECURSIVE ClassDict(_, _)
ClassDict(ms, classes) ==
    IF ms = <<>> THEN classes
    ELSE ClassDict(Tail(ms), ClassStore(classes, ms[1]))

parse_glyph_classes(features_text) == ClassDict(ClassMatches(features_text, 1), <<>>)

(***************************************************************************)
(* merge_classes                                                           *)
(***************************************************************************)
\* all_classes[class_name].update(glyphs), all_classes a defaultdict(set)
ClassUpdate_replace(all_classes, name, glyphs) == Put(all_classes, name, Range(glyphs))

ClassUpdate(all_classes, name, glyphs) ==
    Put(all_classes, name,
        (IF name \in Keys(all_classes) THEN Get(all_classes, name) ELSE {})
            \cup Range(glyphs))

RECURSIVE UpdateAll(_, _)
UpdateAll(all_classes, classes) ==
    IF classes = <<>> THEN all_classes
    ELSE UpdateAll(ClassUpdate(all_classes, classes[1].k, classes[1].v), Tail(classes))

RECURSIVE AllClasses(_, _)
AllClasses(md, all_classes) ==
    IF md = <<>> THEN all_classes
    ELSE AllClasses(Tail(md),
                    UpdateAll(all_classes, parse_glyph_classes(md[1].v.features)))

\* sorted(list(glyphs))
SortedGlyphs_descending(glyphs) ==
    LET up == sorted(glyphs) IN [i \in DOMAIN up |-> up[Len(up) + 1 - i]]

SortedGlyphs(glyphs) == sorted(glyphs)

merge_classes(md) ==
    LET all_classes == AllClasses(md, <<>>)
    IN  [i \in DOMAIN all_classes |->
            [k |-> all_classes[i].k, v |-> SortedGlyphs(all_classes[i].v)]]

(***************************************************************************)
(* parse_kern_pairs                                                        *)
(***************************************************************************)
kFeature == <<"f", "e", "a", "t", "u", "r", "e">>
kKern == <<"k", "e", "r", "n">>
kEnum == <<"e", "n", "u", "m">>
kPos == <<"p", "o", "s">>

\* \}\s*<closer> : the first index >= j of a "}" that whitespace and then the
\* literal closer follow, 0 if there is none (the end of a lazy .*? body).
FindClose(t, j, closer) ==
    First({c \in j..Len(t) :
             t[c] = "}" /\ MatchLit(t, Span(t, c + 1, Whitespace), closer)})

\* kern_pattern at index i: feature\s+kern\s*\{(.*?)\}\s*kern;
KernBlockAt(t, i) ==
    IF ~MatchLit(t, i, kFeature) THEN NoMatch
    ELSE
    LET w == Span(t, i + 7, Whitespace)
        b == Span(t, w + 4, Whitespace)
        j == FindClose(t, b + 1, kKern \o <<";">>)
    IN  IF w > i + 7 /\ MatchLit(t, w, kKern) /\ MatchLit(t, b, <<"{">>) /\ j # 0
        THEN [ok |-> TRUE, block |-> SubSeq(t, b + 1, j - 1)]
        ELSE NoMatch

\* re.search(kern_pattern, features_text, re.DOTALL)
KernSearch(t) ==
    LET at == First({j \in 1..Len(t) : KernBlockAt(t, j).ok})
    IN  IF at = 0 THEN NoMatch ELSE KernBlockAt(t, at)

\* \s*:\s*([^;]+); at index c
ValueAt(t, c) ==
    LET k  == Span(t, c, Whitespace)
        sc == Find(t, k + 1, <<";">>)
    IN  IF MatchLit(t, k, <<":">>) /\ sc > k + 1
        THEN [ok |-> TRUE, value |-> strip(SubSeq(t, k + 1, sc - 1)), end |-> sc + 1]
        ELSE NoMatch

\* (?:\s*\(([^)]*)\))?\s*:\s*([^;]+); at index c
RestAt(t, c) ==
    LET k  == Span(t, c, Whitespace)
        cl == Find(t, k + 1, <<")">>)
    IN  IF MatchLit(t, k, <<"(">>)
        THEN IF cl = 0 THEN NoMatch
             ELSE LET v == ValueAt(t, cl + 1)
                  IN  IF v.ok
                      THEN [ok |-> TRUE, conditions |-> <<SubSeq(t, k + 1, cl - 1)>>,
                            value |-> v.value, end |-> v.end]
                      ELSE NoMatch
        ELSE LET v == ValueAt(t, c)
             IN  IF v.ok
                 THEN [ok |-> TRUE, conditions |-> <<>>, value |-> v.value, end |-> v.end]
                 ELSE NoMatch

\* ([^(;]+?) from index s: the end of the shortest group that the rest of
\* the pattern follows, 0 if there is none.
GlyphsEnd(t, s) ==
    LET stop == First({j \in s..(Len(t) + 1) : j > Len(t) \/ t[j] \in {"(", ";"}})
    IN  First({e \in s..(stop - 1) : RestAt(t, e + 1).ok})

\* pos\s+ : the greedy \s+ runs from index q (after "pos") to w and gives
\* whitespace back down to one character; the start of the glyph group is the
\* last index in q+1..w from which the pattern can be completed, 0 if none.
GlyphsStart(t, q, w) ==
    LET I == {s \in (q + 1)..w : GlyphsEnd(t, s) # 0}
    IN  IF I = {} THEN 0 ELSE CHOOSE s \in I : \A r \in I : r <= s

\* pos_pattern at index i:
\*   (enum\s+)?pos\s+([^(;]+?)(?:\s*\(([^)]*)\))?\s*:\s*([^;]+);
PosMatchAt(t, i) ==
    LET ew == Span(t, i + 4, Whitespace)
        is_enum == MatchLit(t, i, kEnum) /\ ew > i + 4 /\ MatchLit(t, ew, kPos)
        q == IF is_enum THEN ew + 3 ELSE IF MatchLit(t, i, kPos) THEN i + 3 ELSE 0
        s == IF q = 0 THEN 0 ELSE GlyphsStart(t, q, Span(t, q, Whitespace))
        e == IF s = 0 THEN 0 ELSE GlyphsEnd(t, s)
    IN  IF s = 0 THEN NoMatch
        ELSE LET r == RestAt(t, e + 1)
             IN  [ok |-> TRUE, end |-> r.end,
                  pair |-> [enum |-> is_enum,
                            glyphs |-> strip(SubSeq(t, s, e)),
                            conditions |-> r.conditions,
                            value |-> r.value]]

\* re.finditer(pos_pattern, kern_block), from index i on
RECURSIVE PosMatches(_, _)
PosMatches(t, i) ==
    LET at == First({j \in i..Len(t) : PosMatchAt(t, j).ok})
        m  == PosMatchAt(t, at)
    IN  IF at = 0 THEN <<>> ELSE <<m.pair>> \o PosMatches(t, m.end)

parse_kern_pairs(features_text) ==
    LET kern_match == KernSearch(features_text)
    IN  IF kern_match.ok THEN PosMatches(kern_match.block, 1) ELSE <<>>

(***************************************************************************)
(* format_variable_value                                                   *)
(***************************************************************************)
\* coords.append(f"{axis_tag}={axis_value}") for each item of the location
Coords(location) ==
    [i \in DOMAIN location |-> location[i].k \o <<"=">> \o str(location[i].v)]

\* f"{coord_str}:{value}" with coord_str = " ".join(coords)
Fragment_nosep(coords, value) == join(<<>>, coords) \o <<":">> \o str(value)

Fragment(coords, value) == join(<<" ">>, coords) \o <<":">> \o str(value)

\* if coords: coordinate_values.append(...)
HasCoords_always(coords) == TRUE

HasCoords(coords) == coords # <<>>

RECURSIVE CoordinateValues(_, _)
CoordinateValues(master_values, md) ==
    IF master_values = <<>> THEN <<>>
    ELSE LET master_name == master_values[1].k
             value == master_values[1].v
             rest == CoordinateValues(Tail(master_values), md)
         IN  IF master_name \in Keys(md)
             THEN LET coords == Coords(Get(md, master_name).location)
                  IN  IF HasCoords(coords)
                      THEN <<Fragment(coords, value)>> \o rest
                      ELSE rest
             ELSE rest

format_variable_value(master_values, md) ==
    IF master_values = <<>> THEN <<"0">>
    ELSE LET coordinate_values == CoordinateValues(master_values, md)
         IN  IF coordinate_values # <<>> THEN join(<<" ">>, coordinate_values)
             ELSE <<"0">>

(***************************************************************************)
(* combine_kern_features                                                   *)
(***************************************************************************)
\* re.search(r'(-?\d+)', value): the matched text, <<>> if there is none
IntSearch(v) ==
    LET Signed(i) == v[i] = "-" /\ i < Len(v) /\ v[i + 1] \in Digits
        at == First({i \in 1..Len(v) : Signed(i) \/ v[i] \in Digits})
    IN  IF at = 0 THEN <<>>
        ELSE SubSeq(v, at, Span(v, IF Signed(at) THEN at + 1 ELSE at, Digits) - 1)

\* pair_key = (pair['glyphs'], pair.get('enum', False))
PairKey_noenum(pair) == [glyphs |-> pair.glyphs, enum |-> FALSE]

PairKey(pair) == [glyphs |-> pair.glyphs, enum |-> pair.enum]

\* all_kern_pairs[pair_key][master_name] = numeric_value
KernStore_first(all_kern_pairs, pair_key, master_name, numeric_value) ==
    LET old == IF pair_key \in Keys(all_kern_pairs)
               THEN Get(all_kern_pairs, pair_key) ELSE <<>>
    IN  IF master_name \in Keys(old) THEN all_kern_pairs
        ELSE Put(all_kern_pairs, pair_key, Put(old, master_name, numeric_value))

KernStore(all_kern_pairs, pair_key, master_name, numeric_value) ==
    LET old == IF pair_key \in Keys(all_kern_pairs)
               THEN Get(all_kern_pairs, pair_key) ELSE <<>>
    IN  Put(all_kern_pairs, pair_key, Put(old, master_name, numeric_value))

RECURSIVE StorePairs(_, _, _)
StorePairs(all_kern_pairs, master_name, kern_pairs) ==
    IF kern_pairs = <<>> THEN all_kern_pairs
    ELSE LET pair == kern_pairs[1]
             value_match == IntSearch(pair.value)
         IN  StorePairs(IF value_match # <<>>
                        THEN KernStore(all_kern_pairs, PairKey(pair), master_name,
                                       int(value_match))
                        ELSE all_kern_pairs,
                        master_name, Tail(kern_pairs))

RECURSIVE AllKernPairs(_, _)
AllKernPairs(md, all_kern_pairs) ==
    IF md = <<>> THEN all_kern_pairs
    ELSE AllKernPairs(Tail(md),
                      StorePairs(all_kern_pairs, md[1].k,
                                 parse_kern_pairs(md[1].v.features)))

\* f"    {enum_prefix}pos {glyphs} ({variable_value});"
KernLine(glyphs, is_enum, variable_value) ==
    <<" ", " ", " ", " ">> \o (IF is_enum THEN kEnum \o <<" ">> ELSE <<>>)
        \o kPos \o <<" ">> \o glyphs \o <<" ", "(">> \o variable_value \o <<")", ";">>

RECURSIVE KernLines(_, _)
KernLines(all_kern_pairs, md) ==
    IF all_kern_pairs = <<>> THEN <<>>
    ELSE LET key == all_kern_pairs[1].k
             variable_value == format_variable_value(all_kern_pairs[1].v, md)
             rest == KernLines(Tail(all_kern_pairs), md)
         IN  IF variable_value # <<"0">>
             THEN <<KernLine(key.glyphs, key.enum, variable_value)>> \o rest
             ELSE rest

combine_kern_features(md) == KernLines(AllKernPairs(md, <<>>), md)

(***************************************************************************)
(* generate_variable_features                                              *)
(***************************************************************************)
\* feature_pattern at index i: feature\s+(\w+)\s*\{.*?\}\s*\1;
FeatureMatchAt(t, i) ==
    IF ~MatchLit(t, i, kFeature) THEN NoMatch
    ELSE
    LET w == Span(t, i + 7, Whitespace)
        n == Span(t, w, WordChars)
        b == Span(t, n, Whitespace)
        feature_name == SubSeq(t, w, n - 1)
        j == FindClose(t, b + 1, feature_name \o <<";">>)
        end == Span(t, j + 1, Whitespace) + Len(feature_name) + 1
    IN  IF w > i + 7 /\ n > w /\ MatchLit(t, b, <<"{">>) /\ j # 0
        THEN [ok |-> TRUE, feature_name |-> feature_name,
              text |-> SubSeq(t, i, end - 1), end |-> end]
        ELSE NoMatch

\* re.finditer(feature_pattern, features_text, re.DOTALL), from index i on,
\* keeping match.group(0) of the matches with feature_name != 'kern'
RECURSIVE OtherMatches(_, _)
OtherMatches(t, i) ==
    LET at == First({j \in i..Len(t) : FeatureMatchAt(t, j).ok})
        m  == FeatureMatchAt(t, at)
    IN  IF at = 0 THEN <<>>
        ELSE (IF m.feature_name # kKern THEN <<m.text>> ELSE <<>>)
             \o OtherMatches(t, m.end)

\* other_features: the set the loop over masters_data.values() builds
RECURSIVE other_features(_)
other_features(md) ==
    IF md = <<>> THEN {}
    ELSE Range(OtherMatches(md[1].v.features, 1)) \cup other_features(Tail(md))

\* The orders in which iterating a Python set of strings can yield its
\* elements: string hashes are salted per process, so any order.
Orders(S) == {o \in [1..Cardinality(S) -> S] : Range(o) = S}

Header1 ==
    <<"#", " ", "V", "a", "r", "i", "a", "b", "l", "e", " ", "f", "e", "a", "t", "u",
      "r", "e", "s", ".", "f", "e", "a", " ", "g", "e", "n", "e", "r", "a", "t", "e",
      "d", " ", "f", "r", "o", "m", " ", "d", "e", "s", "i", "g", "n", "s", "p", "a",
      "c", "e", " ", "m", "a", "s", "t", "e", "r", "s">>

Header2 ==
    <<"#", " ", "C", "o", "m", "b", "i", "n", "e", "d", " ", "f", "r", "o", "m", " ",
      "U", "F", "O", " ", "s", "o", "u", "r", "c", "e", "s", " ", "i", "n", " ", "d",
      "e", "s", "i", "g", "n", "s", "p", "a", "c", "e">>

ClassHeader ==
    <<"#", " ", "G", "l", "y", "p", "h", " ", "c", "l", "a", "s", "s", " ", "d", "e",
      "f", "i", "n", "i", "t", "i", "o", "n", "s">>

\* f"@{class_name} = [{glyph_list}];" with glyph_list = " ".join(glyphs)
ClassLine_comma(class_name, glyphs) ==
    <<"@">> \o class_name \o <<" ", "=", " ", "[">> \o join(<<",", " ">>, glyphs)
        \o <<"]", ";">>

ClassLine(class_name, glyphs) ==
    <<"@">> \o class_name \o <<" ", "=", " ", "[">> \o join(<<" ">>, glyphs)
        \o <<"]", ";">>

\* for class_name, glyphs in self.combined_classes.items()
ClassItems_byname(cc) ==
    LET names == sorted(Keys(cc))
    IN  [i \in DOMAIN names |-> [k |-> names[i], v |-> Get(cc, names[i])]]

ClassItems(cc) == cc

ClassLines(cc) ==
    LET items == ClassItems(cc)
    IN  [i \in DOMAIN items |-> ClassLine(items[i].k, items[i].v)]

RECURSIVE Interleave(_, _)
Interleave(lines, extra) ==
    IF lines = <<>> THEN <<>>
    ELSE <<lines[1], extra>> \o Interleave(Tail(lines), extra)

\* output_lines, given the lists the method computed on its way
OutputLines(cc, kern, others) ==
    <<Header1, Header2, <<>>>>
    \o (IF cc # <<>> THEN <<ClassHeader>> \o ClassLines(cc) \o << <<>> >> ELSE <<>>)
    \o (IF kern # <<>>
        THEN <<kFeature \o <<" ">> \o kKern \o <<" ", "{">>>> \o kern
             \o <<<<"}", " ">> \o kKern \o <<";">>, <<>>>>
        ELSE <<>>)
    \o Interleave(others, <<>>)

\* "\n".join(output_lines)
generate_variable_features(cc, kern, others) ==
    join(<<"\n">>, OutputLines(cc, kern, others))

(***************************************************************************)
(* load_ufo_features: one iteration of the loop over designspace.sources   *)
(***************************************************************************)
\* try: font = Font.open(ufo_path) ... except Exception: print(...)
Registers_always(source) == source.path # "" \/ source.filename # ""

Registers(source) ==
    /\ source.path # "" \/ source.filename # ""
    /\ source.exists
    /\ source.opens

\* self.masters_data[source.filename or source.path] = {...}
MasterName(source) == IF source.filename # "" THEN source.filename ELSE source.path

LoadSource(md, source) ==
    IF Registers(source)
    THEN Put(md, MasterName(source),
             [location |-> source.location, features |-> source.features])
    ELSE md

(***************************************************************************)
(* save_combined_features                                                  *)
(***************************************************************************)
LoadUfoFeatures ==
    /\ pc = "load"
    /\ idx < Len(sources)
    /\ masters_data' = LoadSource(masters_data, sources[idx + 1])
    /\ idx' = idx + 1
    /\ UNCHANGED <<sources, given, pc, combined_classes, kern_statements,
                   other_emitted, output>>

MergeClasses ==
    /\ pc = "load"
    /\ idx = Len(sources)
    /\ combined_classes' = merge_classes(masters_data)
    /\ pc' = "generate"
    /\ UNCHANGED <<sources, given, idx, masters_data, kern_statements,
                   other_emitted, output>>

GenerateVariableFeatures ==
    /\ pc = "generate"
    /\ \E others \in Orders(other_features(masters_data)) :
          /\ kern_statements' = combine_kern_features(masters_data)
          /\ other_emitted' = others
          /\ output' = generate_variable_features(combined_classes,
                                                  kern_statements', others)
    /\ pc' = "done"
    /\ UNCHANGED <<sources, given, idx, masters_data, combined_classes>>

Next == LoadUfoFeatures \/ MergeClasses \/ GenerateVariableFeatures

\* The state after __init__.
Start ==
    /\ idx = 0
    /\ pc = "load"
    /\ masters_data = <<>>
    /\ combined_classes = <<>>
    /\ kern_statements = <<>>
    /\ other_emitted = <<>>
    /\ output = <<>>

(***************************************************************************)
(* The checked inputs.  A feature text is written from a list of           *)
(* statements (class declarations, kern statements, feature blocks); the   *)
(* statements are kept in `given`, which the program never reads, so that  *)
(* what the program makes of the text can be compared with what was        *)
(* written.  The first master writes one statement per line, the second    *)
(* a different spacing.                                                    *)
(***************************************************************************)
SeqsUpTo(S, n) == UNION {[1..k -> S] : k \in 0..n}

RECURSIVE Concat(_)
Concat(parts) == IF parts = <<>> THEN <<>> ELSE parts[1] \o Concat(Tail(parts))

Statements(decls, stmts, blocks) == [decls |-> decls, stmts |-> stmts, blocks |-> blocks]

kWght == <<"w", "g", "h", "t">>
kWdth == <<"w", "d", "t", "h">>

LightLocation == <<[k |-> kWght, v |-> 100]>>
BoldLocation == <<[k |-> kWght, v |-> 900], [k |-> kWdth, v |-> 75]>>

Source(filename, path, exists, opens, location, features) ==
    [filename |-> filename, path |-> path, exists |-> exists, opens |-> opens,
     location |-> location, features |-> features]

\* Two masters that load, Light.ufo and Bold.ufo, with the given locations and texts.
TwoMasters(loc1, text1, loc2, text2) ==
    <<Source("Light.ufo", "/fonts/Light.ufo", TRUE, TRUE, loc1, text1),
      Source("Bold.ufo", "/fonts/Bold.ufo", TRUE, TRUE, loc2, text2)>>

\* Class declarations.
GlyphA == <<"A">>
GlyphB == <<"B">>
GlyphAsc == <<"a", ".", "s", "c">>
\* Tokens that no glyph name is, but that the class pattern takes for glyphs.
GlyphOdd1 == <<"a", "]">>
GlyphOdd2 == <<";", "b">>

ClassNames == {<<"U", "C">>, <<"L", "C">>}
GlyphLists ==
    {<<>>, <<GlyphAsc, GlyphA>>, <<GlyphA, GlyphOdd1, GlyphOdd2, GlyphA>>}
Decls == [name : ClassNames, glyphs : GlyphLists]

DeclText(d, style) ==
    IF style = 1
    THEN <<"@">> \o d.name \o <<" ", "=", " ", "[">> \o join(<<" ">>, d.glyphs)
         \o <<"]", ";", "\n">>
    ELSE <<"@">> \o d.name \o <<"=", "[", "\n", " ">> \o join(<<"\n", " ">>, d.glyphs)
         \o <<"\n", "]", ";">>

ClassText(decls, style) == Concat([i \in DOMAIN decls |-> DeclText(decls[i], style)])

\* Kern statements.
SpecAV == <<"A", " ", "V">>
SpecAV2 == <<"A", " ", " ", "V">>
ValueMinus50 == <<"-", "5", "0">>
ValueZeroFirst == <<"<", "0", " ", "-", "8", "0", ">">>
ValueNull == <<"<", "N", "U", "L", "L", ">">>

Stmt(enum, glyphs, value) == [enum |-> enum, glyphs |-> glyphs, value |-> value]

Stmts ==
    {Stmt(FALSE, SpecAV, ValueMinus50), Stmt(FALSE, SpecAV, ValueZeroFirst),
     Stmt(FALSE, SpecAV, ValueNull), Stmt(FALSE, SpecAV2, ValueMinus50),
     Stmt(TRUE, SpecAV, ValueMinus50)}

StmtText(st, style) ==
    IF style = 1
    THEN <<" ", " ">> \o (IF st.enum THEN kEnum \o <<" ">> ELSE <<>>) \o kPos \o <<" ">>
         \o st.glyphs \o <<" ", ":", " ">> \o st.value \o <<" ", ";", "\n">>
    ELSE (IF st.enum THEN kEnum \o <<"\n">> ELSE <<>>) \o kPos \o <<" ", " ">>
         \o st.glyphs \o <<" ", "(", "c", ")", ":">> \o st.value \o <<";">>

KernText(stmts, style) ==
    IF stmts = <<>> THEN <<>>
    ELSE IF style = 1
    THEN kFeature \o <<" ">> \o kKern \o <<" ", "{", "\n">>
         \o Concat([i \in DOMAIN stmts |-> StmtText(stmts[i], 1)])
         \o <<"}", " ">> \o kKern \o <<";", "\n">>
    ELSE kFeature \o <<" ", " ">> \o kKern \o <<"{">>
         \o Concat([i \in DOMAIN stmts |-> StmtText(stmts[i], 2)])
         \o <<"}">> \o kKern \o <<";">>

\* Feature blocks.
kLiga == <<"l", "i", "g", "a">>
kCalt == <<"c", "a", "l", "t">>
BodySub == <<"s", "u", "b", " ", "a", " ", "b", "y", " ", "b", ";">>
BodySub2 == <<"s", "u", "b", " ", "f", " ", "i", " ", "b", "y", " ", "f", "i", ";">>
BodyPos == kPos \o <<" ">> \o SpecAV \o <<" ", ":", " ">> \o ValueMinus50 \o <<";">>

Blocks ==
    {[tag |-> kLiga, body |-> BodySub], [tag |-> kLiga, body |-> BodySub2],
     [tag |-> kCalt, body |-> BodySub], [tag |-> kKern, body |-> BodyPos]}

BlockText(b) ==
    kFeature \o <<" ">> \o b.tag \o <<" ", "{", " ">> \o b.body \o <<" ", "}", " ">>
        \o b.tag \o <<";">>

BlocksText(blocks) ==
    Concat([i \in DOMAIN blocks |-> BlockText(blocks[i]) \o <<"\n">>])

InitClasses ==
    /\ Start
    /\ \E n1 \in 0..MaxDecls : \E n2 \in 0..(MaxDecls - n1) :
       \E d1 \in [1..n1 -> Decls], d2 \in [1..n2 -> Decls] :
          /\ given = <<Statements(d1, <<>>, <<>>), Statements(d2, <<>>, <<>>)>>
          /\ sources = TwoMasters(LightLocation, ClassText(d1, 1),
                                  BoldLocation, ClassText(d2, 2))

InitKern ==
    /\ Start
    /\ \E n1 \in 0..MaxStmts : \E n2 \in 0..(MaxStmts - n1) :
       \E s1 \in [1..n1 -> Stmts], s2 \in [1..n2 -> Stmts] :
       \E loc \in {<<LightLocation, BoldLocation>>, <<<<>>, BoldLocation>>,
                   <<LightLocation, <<>>>>} :
          /\ given = <<Statements(<<>>, s1, <<>>), Statements(<<>>, s2, <<>>)>>
          /\ sources = TwoMasters(loc[1], KernText(s1, 1), loc[2], KernText(s2, 2))

InitOther ==
    /\ Start
    /\ \E n1 \in 0..MaxBlocks : \E n2 \in 0..(MaxBlocks - n1) :
       \E b1 \in [1..n1 -> Blocks], b2 \in [1..n2 -> Blocks] :
          /\ given = <<Statements(<<>>, <<>>, b1), Statements(<<>>, <<>>, b2)>>
          /\ sources = TwoMasters(LightLocation, BlocksText(b1),
                                  BoldLocation, BlocksText(b2))

\* Sources of a designspace: with or without a path and a filename, whose
\* resolved path exists or not, whose UFO opens or raises.  The i-th source
\* sits at wght = 100 * i; several sources may name the same UFO (its layers).
\* The UFO at the path declares @S = [B], the one found by filename @S = [A].
SourceDecl(kind) ==
    [name |-> <<"S">>, glyphs |-> <<IF kind.path # "" THEN GlyphB ELSE GlyphA>>]

SourceKinds ==
    {k \in [filename : {"", "Light.ufo"}, path : {"", "/fonts/Thin.ufo"},
            exists : BOOLEAN, opens : BOOLEAN] :
        /\ k.exists \/ k.opens
        /\ (k.filename = "" /\ k.path = "") => (k.exists /\ k.opens)}

InitLoad ==
    /\ Start
    /\ \E n \in 0..MaxSources : \E kinds \in [1..n -> SourceKinds] :
          /\ given = [i \in 1..n |-> Statements(<<SourceDecl(kinds[i])>>, <<>>, <<>>)]
          /\ sources = [i \in 1..n |->
                Source(kinds[i].filename, kinds[i].path, kinds[i].exists,
                       kinds[i].opens, <<[k |-> kWght, v |-> 100 * i]>>,
                       ClassText(<<SourceDecl(kinds[i])>>, 1))]

SpecClasses == InitClasses /\ [][Next]_vars
SpecKern == InitKern /\ [][Next]_vars
SpecOther == InitOther /\ [][Next]_vars
SpecLoad == InitLoad /\ [][Next]_vars

(***************************************************************************)
(* What the claims are stated in: the text that was written (given), the   *)
(* lines of the output text, and the values the written statements stand   *)
(* for.  None of it uses the operators that model the program.             *)
(***************************************************************************)
Merged == pc # "load"
Done == pc = "done"

Last(I) == CHOOSE i \in I : \A j \in I : j <= i

\* text.split("\n")
RECURSIVE LinesFrom(_, _)
LinesFrom(t, i) ==
    LET nl == First({j \in i..Len(t) : t[j] = "\n"})
    IN  IF nl = 0 THEN <<SubSeq(t, i, Len(t))>>
        ELSE <<SubSeq(t, i, nl - 1)>> \o LinesFrom(t, nl + 1)

Lines(t) == LinesFrom(t, 1)

StartsWith(l, prefix) == Len(prefix) <= Len(l) /\ SubSeq(l, 1, Len(prefix)) = prefix

EndsWith(l, suffix) ==
    Len(suffix) <= Len(l) /\ SubSeq(l, Len(l) - Len(suffix) + 1, Len(l)) = suffix

\* The elements of a sequence without repetitions, each at its first place.
RECURSIVE FirstSeen(_)
FirstSeen(s) ==
    IF s = <<>> THEN <<>>
    ELSE LET init == FirstSeen(SubSeq(s, 1, Len(s) - 1))
         IN  IF s[Len(s)] \in Range(init) THEN init ELSE Append(init, s[Len(s)])

Ascending(names) == \A a, b \in DOMAIN names : a < b => StrLess(names[a], names[b])

\* A dict as a mapping, the order of its keys forgotten.
AsMapping(d) == [key \in Keys(d) |-> Get(d, key)]
AsSetMapping(d) == [key \in Keys(d) |-> Range(Get(d, key))]

\* --- class declarations as written ---
DeclaredNames ==
    UNION {{given[i].decls[j].name : j \in DOMAIN given[i].decls} : i \in DOMAIN given}

DeclsOf(i, X) == {j \in DOMAIN given[i].decls : given[i].decls[j].name = X}

\* The glyphs of every declaration of X in the text of source i.
DeclaredGlyphs(i, X) == UNION {Range(given[i].decls[j].glyphs) : j \in DeclsOf(i, X)}

\* The glyphs of the last declaration of X in the text of source i.
LastDeclaredGlyphs(i, X) ==
    IF DeclsOf(i, X) = {} THEN {} ELSE Range(given[i].decls[Last(DeclsOf(i, X))].glyphs)

MergedGlyphs(X) == Range(Get(combined_classes, X))

\* The class names of the written texts, sources in order, each text in order.
WrittenNames ==
    Concat([i \in DOMAIN given |->
              [j \in DOMAIN given[i].decls |-> given[i].decls[j].name]])

\* The class names of the declaration lines of the output, in output order.
OutputClassNames ==
    LET decl == SelectSeq(Lines(output), LAMBDA l : StartsWith(l, <<"@">>))
    IN  [n \in DOMAIN decl |->
            SubSeq(decl[n], 2, First({j \in DOMAIN decl[n] : decl[n][j] = " "}) - 1)]

\* --- kern statements as written ---
KernKeys == {[glyphs |-> g, enum |-> e] : g \in {SpecAV, SpecAV2}, e \in BOOLEAN}

StmtKey(st) == [glyphs |-> st.glyphs, enum |-> st.enum]

\* The integer a written value text stands for, in a sequence (empty: none).
WrittenValue(v) ==
    IF v = ValueMinus50 THEN <<0 - 50>>
    ELSE IF v = ValueZeroFirst THEN <<0>>
    ELSE <<>>

ValueText(n) == IF n = 0 THEN <<"0">> ELSE <<"-", "5", "0">>

LocationText(i) ==
    IF sources[i].location = LightLocation
    THEN <<"w", "g", "h", "t", "=", "1", "0", "0">>
    ELSE IF sources[i].location = BoldLocation
    THEN <<"w", "g", "h", "t", "=", "9", "0", "0", " ", "w", "d", "t", "h", "=", "7", "5">>
    ELSE <<>>

\* The statements of source i for the key whose value text holds an integer.
NumericStmts(i, key) ==
    {j \in DOMAIN given[i].stmts :
        /\ StmtKey(given[i].stmts[j]) = key
        /\ WrittenValue(given[i].stmts[j].value) # <<>>}

LastValue(i, key) == WrittenValue(given[i].stmts[Last(NumericStmts(i, key))].value)[1]

Emits(i, key) == NumericStmts(i, key) # {} /\ sources[i].location # <<>>

EmittedKeys == {key \in KernKeys : \E i \in DOMAIN sources : Emits(i, key)}

ExpectedFragment(i, key) == LocationText(i) \o <<":">> \o ValueText(LastValue(i, key))

ExpectedValue(key) ==
    LET from == SelectSeq([i \in DOMAIN sources |-> i], LAMBDA i : Emits(i, key))
    IN  join(<<" ">>, [n \in DOMAIN from |-> ExpectedFragment(from[n], key)])

LineHead(key) ==
    <<" ", " ", " ", " ">> \o (IF key.enum THEN <<"e", "n", "u", "m", " ">> ELSE <<>>)
        \o <<"p", "o", "s", " ">> \o key.glyphs \o <<" ", "(">>

\* The lines of the kern block of the output: the only indented lines.
KernOutputLines == SelectSeq(Lines(output), LAMBDA l : StartsWith(l, <<" ", " ", " ", " ">>))

LinesOfKey(key) ==
    {n \in DOMAIN KernOutputLines : StartsWith(KernOutputLines[n], LineHead(key))}

\* The text between the parentheses of a kern line.
ValueOfLine(l) == SubSeq(l, First({j \in DOMAIN l : l[j] = "("}) + 1, Len(l) - 2)

\* The fragments of a value: each runs up to its token that holds the colon.
RECURSIVE FragmentsFrom(_, _)
FragmentsFrom(v, i) ==
    LET colon == First({j \in i..Len(v) : v[j] = ":"})
        stop  == First({j \in colon..(Len(v) + 1) : j > Len(v) \/ v[j] = " "})
    IN  IF colon = 0 THEN <<>>
        ELSE <<SubSeq(v, i, stop - 1)>> \o FragmentsFrom(v, stop + 1)

Fragments(v) == FragmentsFrom(v, 1)

\* The fragments of a kern line that carry the coordinates of source i.
FragmentsOf(i, l) ==
    SelectSeq(Fragments(ValueOfLine(l)),
              LAMBDA f : SubSeq(f, 1, First({j \in DOMAIN f : f[j] = ":"}) - 1)
                            = LocationText(i))

\* --- feature blocks as written ---
WrittenOtherBlocks ==
    FirstSeen(SelectSeq(
        Concat([i \in DOMAIN given |->
                  [j \in DOMAIN given[i].blocks |-> given[i].blocks[j]]]),
        LAMBDA b : b.tag # <<"k", "e", "r", "n">>))

OtherOutputLines ==
    SelectSeq(Lines(output),
              LAMBDA l : StartsWith(l, <<"f", "e", "a", "t", "u", "r", "e", " ">>)
                         /\ l # <<"f", "e", "a", "t", "u", "r", "e", " ", "k", "e", "r",
                                  "n", " ", "{">>)

\* --- sources as given ---
Succeeds(i) ==
    /\ sources[i].path # "" \/ sources[i].filename # ""
    /\ sources[i].exists
    /\ sources[i].opens

Identifier(i) == IF sources[i].filename # "" THEN sources[i].filename ELSE sources[i].path

\* The sources among the first n that succeeded, and the last of them per identifier.
Succeeded(n) == {i \in 1..n : Succeeds(i)}

Surviving(n) ==
    {i \in Succeeded(n) : \A j \in Succeeded(n) : Identifier(j) = Identifier(i) => j <= i}

(***************************************************************************)
(* The claims.                                                             *)
(***************************************************************************)

\* C1, as stated: after merge_classes the merged class X holds every glyph of
\* every declaration of X in any master, and no other glyph.
C1_EveryDeclaration ==
    Merged =>
        /\ Keys(combined_classes) = DeclaredNames
        /\ \A X \in DeclaredNames :
              MergedGlyphs(X) = UNION {DeclaredGlyphs(i, X) : i \in DOMAIN given}

\* C1, amended: after merge_classes the merged classes are the declared class
\* names, and the merged class X holds exactly the glyphs of the last
\* declaration of X in each master that declares X.
C1_UnionOfLastDeclarations ==
    Merged =>
        /\ Keys(combined_classes) = DeclaredNames
        /\ \A X \in DeclaredNames :
              MergedGlyphs(X) = UNION {LastDeclaredGlyphs(i, X) : i \in DOMAIN given}

\* C1 witness: a class declared by both masters with different glyphs, one of
\* them declaring it twice, merged into more glyphs than either master gives.
C1_Witness ==
    /\ Merged
    /\ \E X \in DeclaredNames :
          /\ DeclsOf(1, X) # {} /\ Cardinality(DeclsOf(2, X)) >= 2
          /\ LastDeclaredGlyphs(1, X) # LastDeclaredGlyphs(2, X)
          /\ MergedGlyphs(X) # LastDeclaredGlyphs(1, X)
          /\ MergedGlyphs(X) # LastDeclaredGlyphs(2, X)
          /\ MergedGlyphs(X) = LastDeclaredGlyphs(1, X) \cup LastDeclaredGlyphs(2, X)

\* C2: every line of the output kern block is the line of one key, and the
\* text between its parentheses is the space-joined fragments
\* <coords>:<value>, one per master with a numeric statement for the key and a
\* non-empty location, in registration order, the coordinates in location
\* order.
C2_KernValueSynthesis ==
    Done =>
        \A n \in DOMAIN KernOutputLines :
            LET l == KernOutputLines[n]
            IN  /\ EndsWith(l, <<")", ";">>)
                /\ \E key \in EmittedKeys :
                      /\ StartsWith(l, LineHead(key))
                      /\ ValueOfLine(l) = ExpectedValue(key)

\* C2 witness: a line whose value joins a fragment of each of the two masters,
\* the second with two coordinates.
C2_Witness ==
    /\ Done
    /\ \E n \in DOMAIN KernOutputLines, key \in KernKeys :
          /\ Emits(1, key) /\ Emits(2, key)
          /\ LastValue(1, key) # LastValue(2, key)
          /\ sources[2].location = BoldLocation
          /\ KernOutputLines[n] = LineHead(key) \o ExpectedValue(key) \o <<")", ";">>

\* C3: a key has a line in the output kern block if and only if some master
\* with a non-empty location has a statement for the key whose value text
\* holds an integer literal.
C3_EmissionRule ==
    Done => \A key \in KernKeys : (LinesOfKey(key) # {}) <=> (key \in EmittedKeys)

\* C3 witness: of two keys, the one whose only value is 0 at a non-empty
\* location has the line <coords>:0, the one whose statements are at an empty
\* location or hold no integer has none.
C3_Witness ==
    /\ Done
    /\ \E key, other \in KernKeys :
          /\ \E i \in DOMAIN sources :
                /\ Emits(i, key) /\ LastValue(i, key) = 0
                /\ \E n \in LinesOfKey(key) :
                      ValueOfLine(KernOutputLines[n]) = LocationText(i) \o <<":", "0">>
          /\ \E i \in DOMAIN sources :
                /\ \E j \in DOMAIN given[i].stmts : StmtKey(given[i].stmts[j]) = other
                /\ ~Emits(i, other)
          /\ LinesOfKey(other) = {}

\* C4: the lines of the output kern block correspond one to one to the keys
\* (glyph_spec, is_enum) that are emitted: as many lines as keys, one line per
\* key, each with the enum prefix of its key and the glyph spec as written.
C4_OneLinePerKey ==
    Done =>
        /\ Len(KernOutputLines) = Cardinality(EmittedKeys)
        /\ \A key \in EmittedKeys : Cardinality(LinesOfKey(key)) = 1
        /\ \A n \in DOMAIN KernOutputLines :
              \E key \in EmittedKeys :
                 /\ n \in LinesOfKey(key)
                 /\ StartsWith(KernOutputLines[n], <<" ", " ", " ", " ", "e">>) <=> key.enum

\* C4 witness: three statements that differ in the whitespace of the glyph
\* spec or in the enum flag alone, each on a line of its own.
C4_Witness ==
    /\ Done
    /\ Len(KernOutputLines) = 3
    /\ EmittedKeys = {[glyphs |-> SpecAV, enum |-> FALSE], [glyphs |-> SpecAV2, enum |-> FALSE],
                      [glyphs |-> SpecAV, enum |-> TRUE]}
    /\ \A key \in EmittedKeys : Cardinality(LinesOfKey(key)) = 1

\* C5: the merged mapping class name -> glyph list is the same for every
\* order of the masters, a further master that repeats the text of a master
\* does not change it, and every merged glyph list is strictly ascending.
C5_OrderIndependentIdempotent ==
    Merged =>
        /\ \A p \in Orders(DOMAIN masters_data) :
              AsMapping(merge_classes([i \in DOMAIN masters_data |-> masters_data[p[i]]]))
                 = AsMapping(combined_classes)
        /\ \A i \in DOMAIN masters_data :
              AsMapping(merge_classes(
                  Append(masters_data, [k |-> "Copy.ufo", v |-> masters_data[i].v])))
                 = AsMapping(combined_classes)
        /\ \A X \in Keys(combined_classes) : Ascending(Get(combined_classes, X))

\* C5 witness: two masters with different texts that declare a class with
\* different glyphs, merged into a list of three glyphs.
C5_Witness ==
    /\ Merged
    /\ sources[1].features # <<>> /\ sources[2].features # <<>>
    /\ \E X \in Keys(combined_classes) :
          /\ LastDeclaredGlyphs(1, X) # {} /\ LastDeclaredGlyphs(2, X) # {}
          /\ LastDeclaredGlyphs(1, X) # LastDeclaredGlyphs(2, X)
          /\ Len(Get(combined_classes, X)) >= 3

\* C6, as stated: the class declarations of the output are sorted by class name.
C6_SortedByName == Done => Ascending(OutputClassNames)

\* C6, amended: the class declarations of the output are in the order in which
\* the class names are first seen, the masters in registration order and each
\* text from its start.
C6_FirstSeenOrder == Done => OutputClassNames = FirstSeen(WrittenNames)

\* C6 witness: an output with two class declarations that are not in name order.
C6_Witness ==
    /\ Done
    /\ Len(OutputClassNames) = 2
    /\ StrLess(OutputClassNames[2], OutputClassNames[1])

\* C7: the non-kern feature blocks are emitted once per distinct text, no kern
\* block among them, in the order of their first occurrence, the masters in
\* registration order.
C7_PassthroughFirstSeen ==
    Done =>
        OtherOutputLines = [n \in DOMAIN WrittenOtherBlocks |-> BlockText(WrittenOtherBlocks[n])]

\* C8, as stated: a failing source adds no entry, and every source that loads
\* has its entry (its own location and text) in the registry, which holds as
\* many masters as sources succeeded.
C8_EverySuccessRegistered ==
    /\ Keys(masters_data) = {Identifier(i) : i \in Succeeded(idx)}
    /\ \A i \in Succeeded(idx) :
          /\ Get(masters_data, Identifier(i)).location = sources[i].location
          /\ Get(masters_data, Identifier(i)).features = sources[i].features
    /\ Len(masters_data) = Cardinality(Succeeded(idx))

\* C8, amended: at every position of the loop the registry holds exactly the
\* identifiers of the sources visited that loaded, each with the location and
\* text of the last such source that bears it; the loop visits every source,
\* and the merge is that of the registry.
C8_ErrorsSkipped ==
    /\ Keys(masters_data) = {Identifier(i) : i \in Succeeded(idx)}
    /\ Len(masters_data) = Cardinality(Surviving(idx))
    /\ \A i \in Surviving(idx) :
          /\ Get(masters_data, Identifier(i)).location = sources[i].location
          /\ Get(masters_data, Identifier(i)).features = sources[i].features
    /\ Merged =>
          /\ idx = Len(sources)
          /\ Keys(combined_classes) = {<<"S">> : i \in Surviving(idx)}
          /\ \A X \in Keys(combined_classes) :
                MergedGlyphs(X) = UNION {DeclaredGlyphs(i, X) : i \in Surviving(idx)}

\* C8 witness: a source whose path is missing and a source whose load raises,
\* then a source that loads; the merge is over the third alone.
C8_Witness ==
    /\ Done
    /\ Len(sources) = 3
    /\ ~sources[1].exists /\ sources[1].filename # ""
    /\ sources[2].exists /\ ~sources[2].opens
    /\ Succeeds(3)
    /\ Len(masters_data) = 1
    /\ sources[1].features # sources[3].features
    /\ combined_classes = <<[k |-> <<"S">>, v |-> given[3].decls[1].glyphs]>>

\* C9: parsing the output with parse_glyph_classes gives the mapping class
\* name -> glyph set of the merged class table.
C9_ClassRoundTrip ==
    Done => AsSetMapping(parse_glyph_classes(output)) = AsSetMapping(combined_classes)

\* C9 witness: an output that declares a class without glyphs and a class of
\* three tokens, two of which hold a bracket or a semicolon.
C9_Witness ==
    /\ Done
    /\ \E X, Y \in Keys(combined_classes) :
          /\ Get(combined_classes, X) = <<>>
          /\ Get(combined_classes, Y) = <<GlyphOdd2, GlyphA, GlyphOdd1>>
          /\ Len(OutputClassNames) = 2

\* C10, as stated: a master with several numeric statements for a key leaves
\* exactly one fragment on the line of the key, with the value of the last.
C10_OneFragmentPerMaster ==
    Done =>
        \A i \in DOMAIN sources, key \in KernKeys :
            Cardinality(NumericStmts(i, key)) >= 2 =>
                \A n \in LinesOfKey(key) :
                    Len(FragmentsOf(i, KernOutputLines[n])) = 1

\* C10, amended: a master with a non-empty location and several numeric
\* statements for a key leaves exactly one fragment on the line of the key,
\* with the value of the last of them.
C10_LastStatementWins ==
    Done =>
        \A i \in DOMAIN sources, key \in KernKeys :
            (Cardinality(NumericStmts(i, key)) >= 2 /\ sources[i].location # <<>>) =>
                /\ LinesOfKey(key) # {}
                /\ \A n \in LinesOfKey(key) :
                      FragmentsOf(i, KernOutputLines[n]) = <<ExpectedFragment(i, key)>>

\* C10 witness: a master at a non-empty location with two statements for a key
\* of different values, whose line carries the second.
C10_Witness ==
    /\ Done
    /\ \E i \in DOMAIN sources, key \in KernKeys :
          /\ sources[i].location # <<>>
          /\ Cardinality(NumericStmts(i, key)) = 2
          /\ \E j \in NumericStmts(i, key) :
                WrittenValue(given[i].stmts[j].value)[1] # LastValue(i, key)
          /\ \E n \in LinesOfKey(key) :
                FragmentsOf(i, KernOutputLines[n]) = <<ExpectedFragment(i, key)>>

====
